---------------------------- MODULE Spec2Model ----------------------------
(***************************************************************************)
(* Model of the soil-sensor dashboard: app/page.tsx (the Dashboard         *)
(* component: window of readings, latest reading, alerts, date filter)     *)
(* and lib/firebase.ts (fetchSensorData, subscribeToRealtimeData).         *)
(*                                                                         *)
(* Conventions.                                                            *)
(*  - A JavaScript string is a sequence of one-character strings.          *)
(*  - Measurements are fixed-point numbers in tenths (8.5 is 85); the      *)
(*    model's measurements are non-negative.                               *)
(*  - Timestamps are integer milliseconds; the not-a-number value of       *)
(*    parseInt / parseFloat / Date.getTime is the value NaN, and every     *)
(*    comparison with it is false, as in JavaScript.                       *)
(*  - A raw field of a database record is [kind, num, str] with kind       *)
(*    "undefined" (absent), "number" or "string".                          *)
(***************************************************************************)
EXTENDS Integers, Sequences, FiniteSets, TLC

VARIABLES
    db,             \* the 'sensors' node of the database: raw records in payload order
    listeners,      \* onValue listeners attached to the 'sensors' ref
    fetchState,     \* the promise of fetchSensorData and loadData's position
    fetched,        \* the value the promise resolved to
    data,           \* useState: the window of readings
    latestReading,  \* useState: <<>> for null, <<r>> for a reading
    loading,        \* useState: the loading flag
    alerts,         \* useState: the active alert messages
    timers,         \* number of pending setTimeout(() => setAlerts([]), 5000)
    dateFilter,     \* useState: [start, end], two input strings
    torn,           \* the effect cleanup has run
    notified,       \* number of snapshots the live listener has been called with
    liveCount,      \* number of readings the live callback has processed
    arrived,        \* the readings handed to setData since the window was last replaced
    download        \* the csvContent of the last export, a list of lines; <<>> before any

vars == <<db, listeners, fetchState, fetched, data, latestReading, loading,
          alerts, timers, dateFilter, torn, notified, liveCount, arrived, download>>

---------------------------------------------------------------------------
(* Bounds of the model. *)

\* records the source writes in the branching specification
MaxDb == 2
\* live notifications processed in the branching specification
MaxLive == 2
\* live appends of the long run
MaxLongLive == 150
\* Date.now() at the historical query is the lookback plus this offset
NowOffset == 2

---------------------------------------------------------------------------
(* JavaScript values. *)

NaN == -1

\* the last element of a non-empty array
Last(s) == s[Len(s)]

Digits == <<"0", "1", "2", "3", "4", "5", "6", "7", "8", "9">>

IsDigit(c) == \E d \in 1..10 : Digits[d] = c

DigitOf(c) == (CHOOSE d \in 1..10 : Digits[d] = c) - 1

RECURSIVE ParseDigits(_, _)
\* the value of the leading decimal digits of s, after the digits read so far
ParseDigits(s, acc) ==
    IF s = <<>> \/ ~IsDigit(Head(s)) THEN acc
    ELSE ParseDigits(Tail(s), acc * 10 + DigitOf(Head(s)))

RECURSIVE SkipDigits(_)
SkipDigits(s) ==
    IF s = <<>> \/ ~IsDigit(Head(s)) THEN s ELSE SkipDigits(Tail(s))

\* parseInt(key): the leading digits, NaN when there is none
ParseInt(s) ==
    IF s = <<>> \/ ~IsDigit(Head(s)) THEN NaN ELSE ParseDigits(s, 0)

\* parseFloat of a string, in tenths: digits, then at most one decimal read
ParseFloatStr(s) ==
    IF s = <<>> \/ ~IsDigit(Head(s)) THEN NaN
    ELSE LET rest == SkipDigits(s)
         IN  IF Len(rest) >= 2 /\ rest[1] = "." /\ IsDigit(rest[2])
             THEN ParseDigits(s, 0) * 10 + DigitOf(rest[2])
             ELSE ParseDigits(s, 0) * 10

Undefined == [kind |-> "undefined", num |-> 0, str |-> <<>>]
Num(n) == [kind |-> "number", num |-> n, str |-> <<>>]
Str(s) == [kind |-> "string", num |-> 0, str |-> s]

\* parseFloat(v): a number is itself, a string is parsed, undefined is NaN
ParseFloat(v) ==
    CASE v.kind = "number" -> v.num
      [] v.kind = "string" -> ParseFloatStr(v.str)
      [] OTHER -> NaN

\* x || 0 on a number: NaN and 0 are falsy
OrZero(x) == IF x = NaN \/ x = 0 THEN 0 ELSE x

\* a >= b and a <= b of JavaScript numbers
Geq(a, b) == a # NaN /\ b # NaN /\ a >= b
Leq(a, b) == a # NaN /\ b # NaN /\ a <= b

---------------------------------------------------------------------------
(* Readings. *)

\* data.timestamp || parseInt(key); the timestamp field is a number or absent
TimestampOf(key, value) ==
    IF value.timestamp.kind = "number" /\ OrZero(value.timestamp.num) # 0
    THEN value.timestamp.num
    ELSE ParseInt(key)

\* the SensorReading built from a child's key and value
Normalize(key, value) ==
    [id          |-> key,
     timestamp   |-> TimestampOf(key, value),
     moisture    |-> OrZero(ParseFloat(value.moisture)),
     temperature |-> OrZero(ParseFloat(value.temperature)),
     ec          |-> OrZero(ParseFloat(value.ec)),
     ph          |-> OrZero(ParseFloat(value.ph)),
     nitrogen    |-> OrZero(ParseFloat(value.nitrogen)),
     phosphorus  |-> OrZero(ParseFloat(value.phosphorus)),
     potassium   |-> OrZero(ParseFloat(value.potassium))]

\* a child of the 'sensors' node
Child(key, ts, moisture, temperature, ph) ==
    [key |-> key,
     value |-> [timestamp |-> ts, moisture |-> moisture, temperature |-> temperature,
                ec |-> Num(12000), ph |-> ph, nitrogen |-> Undefined,
                phosphorus |-> Str(<<"5">>), potassium |-> Num(80)]]


---------------------------------------------------------------------------
(* lib/firebase.ts: fetchSensorData. *)

\* fetchSensorData(7) in loadData
Lookback == 7

\* days * 24 * 60 * 60 * 1000
DaysInMs(days) == days * 24 * 60 * 60 * 1000

\* Date.now() when fetchSensorData runs
Now == DaysInMs(Lookback) + NowOffset

\* startTime = Date.now() - daysInMs
StartTime(days) == Now - DaysInMs(days)

\* the place of s[i] after a stable sort by (a, b) => a.timestamp - b.timestamp:
\* behind every smaller timestamp and every equal one that came before it
SortedPlace(s, i) ==
    Cardinality({j \in 1..Len(s) :
                    \/ s[j].timestamp - s[i].timestamp < 0
                    \/ (s[j].timestamp - s[i].timestamp = 0 /\ j <= i)})

\* the sort left out
SortByTimestampMissing(s) == s

\* readings.sort((a, b) => a.timestamp - b.timestamp)
SortByTimestamp(s) ==
    [k \in 1..Len(s) |-> s[CHOOSE i \in 1..Len(s) : SortedPlace(s, i) = k]]

\* the children of the snapshot, each as a reading
SnapshotReadings(snapshot) ==
    [i \in 1..Len(snapshot) |-> Normalize(snapshot[i].key, snapshot[i].value)]

\* the readings pushed by snapshot.forEach: those with timestamp >= startTime
RecentReadings(snapshot, days) ==
    SelectSeq(SnapshotReadings(snapshot),
              LAMBDA r : Geq(r.timestamp, StartTime(days)))

\* the value fetchSensorData resolves to for a snapshot
FetchReadings(snapshot, days) == SortByTimestamp(RecentReadings(snapshot, days))

---------------------------------------------------------------------------
(* lib/firebase.ts: subscribeToRealtimeData. *)

\* entries[entries.length - 1] of a non-empty snapshot, as a reading
LatestEntry(snapshot) ==
    Normalize(Last(snapshot).key, Last(snapshot).value)

\* the callback called for every entry of the snapshot
CallbackReadingsAll(snapshot) == SnapshotReadings(snapshot)

\* the readings the callback is called with for a snapshot: none when
\* snapshot.val() is null, else the last entry alone
CallbackReadings(snapshot) ==
    IF snapshot = <<>> THEN <<>> ELSE <<LatestEntry(snapshot)>>

---------------------------------------------------------------------------
(* app/page.tsx: the live callback's pieces. *)

\* slice(-100)
Capacity == 100

\* s.slice(-n)
LastN(s, n) == IF Len(s) <= n THEN s ELSE SubSeq(s, Len(s) - n + 1, Len(s))

\* slice(0, 100): the oldest readings kept
AppendReadingHead(prev, newReading) ==
    SubSeq(Append(prev, newReading), 1,
           IF Len(prev) + 1 <= Capacity THEN Len(prev) + 1 ELSE Capacity)

\* [newReading, ...prev]: the new reading put in front
AppendReadingFront(prev, newReading) == LastN(<<newReading>> \o prev, Capacity)

\* setData((prev) => [...prev, newReading].slice(-100))
AppendReading(prev, newReading) == LastN(Append(prev, newReading), Capacity)

\* the rules chained with else-if: the first that fires hides the others
EvaluateElseIf(newReading) ==
    IF newReading.moisture < 200 THEN <<"Low soil moisture">>
    ELSE IF newReading.ph < 60 \/ newReading.ph > 85 THEN <<"pH out of range">>
    ELSE IF newReading.temperature > 600 THEN <<"High temperature">>
    ELSE <<>>

\* newAlerts: the three rules, in tenths (20, 6, 8.5 and 60)
Evaluate(newReading) ==
    (IF newReading.moisture < 200 THEN <<"Low soil moisture">> ELSE <<>>)
    \o (IF newReading.ph < 60 \/ newReading.ph > 85
        THEN <<"pH out of range">> ELSE <<>>)
    \o (IF newReading.temperature > 600 THEN <<"High temperature">> ELSE <<>>)

\* setAlerts(newAlerts) without the length test
AlertsAfterAlways(prev, newAlerts) == newAlerts

\* if (newAlerts.length > 0) setAlerts(newAlerts)
AlertsAfter(prev, newAlerts) == IF Len(newAlerts) > 0 THEN newAlerts ELSE prev

\* the setTimeout left out
TimersAfterNever(pending, newAlerts) == pending

\* if (newAlerts.length > 0) setTimeout(() => setAlerts([]), 5000)
TimersAfter(pending, newAlerts) ==
    IF Len(newAlerts) > 0 THEN pending + 1 ELSE pending

\* the timer's callback: setAlerts([])
AlertsOnExpiry(prev) == <<>>

---------------------------------------------------------------------------
(* app/page.tsx: filterDataByDate. *)

\* new Date(s).getTime() of a date input; a valid date-time text is modelled
\* by the decimal digits of its instant, anything else is an invalid date
DateTime(s) ==
    IF s # <<>> /\ \A i \in 1..Len(s) : IsDigit(s[i])
    THEN ParseDigits(s, 0) ELSE NaN

\* the bounds compared with > and <
FilterDataByDateExclusive(d, f) ==
    IF f.start = <<>> \/ f.end = <<>> THEN d
    ELSE SelectSeq(d, LAMBDA r : Geq(r.timestamp, DateTime(f.start) + 1)
                                 /\ Leq(r.timestamp, DateTime(f.end) - 1)
                                 /\ DateTime(f.start) # NaN /\ DateTime(f.end) # NaN)

\* filterDataByDate, of the window d and the date filter f
FilterDataByDate(d, f) ==
    IF f.start = <<>> \/ f.end = <<>> THEN d
    ELSE SelectSeq(d, LAMBDA r : Geq(r.timestamp, DateTime(f.start))
                                 /\ Leq(r.timestamp, DateTime(f.end)))

filteredData == FilterDataByDate(data, dateFilter)

---------------------------------------------------------------------------
(* lib/firebase.ts: exportToCSV. *)

RECURSIVE DecimalString(_)
\* the decimal digits of a natural number
DecimalString(n) ==
    IF n < 10 THEN <<Digits[n + 1]>>
    ELSE Append(DecimalString(n \div 10), Digits[(n % 10) + 1])

\* a string literal, kept as one piece
Label(text) == <<text>>

RECURSIVE Join(_, _)
\* fields.join(sep)
Join(fields, sep) ==
    IF fields = <<>> THEN <<>>
    ELSE IF Len(fields) = 1 THEN fields[1]
    ELSE fields[1] \o sep \o Join(Tail(fields), sep)

\* x.toFixed(0), x.toFixed(1), x.toFixed(2) of a number held in tenths
ToFixed0(x) == DecimalString((x + 5) \div 10)
ToFixed1(x) == DecimalString(x \div 10) \o <<".", Digits[(x % 10) + 1]>>
ToFixed2(x) == ToFixed1(x) \o <<"0">>

\* new Date(t).toLocaleString(): the locale's text of the instant, modelled by a
\* date mark and the instant's digits; Invalid Date for NaN
LocaleString(t) ==
    IF t = NaN THEN Label("Invalid Date") ELSE Label("date ") \o DecimalString(t)

Headers ==
    <<Label("Timestamp"), Label("Moisture (%)"), Label("Temperature (C)"),
      Label("pH"), Label("EC (uS/cm)"), Label("Nitrogen"), Label("Phosphorus"),
      Label("Potassium")>>

\* one data line of the CSV
CsvRow(row) ==
    Join(<<LocaleString(row.timestamp), ToFixed1(row.moisture),
           ToFixed1(row.temperature), ToFixed2(row.ph), ToFixed0(row.ec),
           ToFixed0(row.nitrogen), ToFixed0(row.phosphorus),
           ToFixed0(row.potassium)>>, <<",">>)

\* csvContent: the header line, then one line per row (the lines are joined
\* with a newline; the list of lines is kept)
ExportToCSV(rows) ==
    <<Join(Headers, <<",">>)>> \o [i \in 1..Len(rows) |-> CsvRow(rows[i])]

---------------------------------------------------------------------------
(* Inputs. *)

\* the children the source writes in the branching specification
Children ==
    { Child(<<"3">>, Undefined, Str(<<"1", "5">>), Num(250), Num(70)),
      Child(<<"a">>, Num(3), Num(500), Num(700), Str(<<"9">>)),
      Child(<<"2">>, Undefined, Num(500), Num(250), Num(70)),
      Child(<<"1">>, Undefined, Str(<<"a", "b", "c">>), Num(250), Num(85)),
      Child(<<"b">>, Undefined, Num(200), Num(600), Num(60)) }

\* the texts typed into the two date inputs
DateInputs == { <<>>, <<"2">>, <<"3">>, <<"x">> }

\* the children of the threshold runs: every combination of values below, at
\* and above each threshold (moisture, temperature and pH in tenths)
EvalChildren ==
    { Child(<<"5">>, Undefined, Num(m), Num(t), Num(p)) :
        m \in {0, 150, 199, 200, 201, 500},
        t \in {250, 600, 601, 700},
        p \in {0, 59, 60, 70, 85, 86, 90} }

\* the i-th child of the long run: inside the lookback, no rule fires
LongChild(i) ==
    Child(DecimalString(i), Num(StartTime(Lookback) + i), Num(500), Num(250), Num(70))

\* the numbers of children the source holds when the long run starts
LongStarts == {0, 3, Capacity, Capacity + 1}

---------------------------------------------------------------------------
(* The state machine. *)

\* the state after the first render and the effect: loadData has called
\* fetchSensorData (listener attached, promise pending) and
\* subscribeToRealtimeData has attached the live listener
Mounted ==
    /\ listeners = {"fetch", "live"}
    /\ fetchState = "pending"
    /\ fetched = <<>>
    /\ data = <<>>
    /\ latestReading = <<>>
    /\ loading = TRUE
    /\ alerts = <<>>
    /\ timers = 0
    /\ dateFilter = [start |-> <<>>, end |-> <<>>]
    /\ torn = FALSE
    /\ notified = 0
    /\ liveCount = 0
    /\ arrived = <<>>
    /\ download = <<>>

Init == db = <<>> /\ Mounted

InitLong == (\E h \in LongStarts : db = [i \in 1..h |-> LongChild(i)]) /\ Mounted

\* loadData's continuation is a microtask: it runs before any other task
MicrotaskPending == fetchState \in {"resolved", "rejected"}

\* the sensor writes a new child; the payload's last entry is the newest
SourceWrite(child) ==
    /\ ~MicrotaskPending
    /\ \A i \in 1..Len(db) : db[i].key # child.key
    /\ db' = Append(db, child)
    /\ UNCHANGED <<listeners, fetchState, fetched, data, latestReading, loading,
                   alerts, timers, dateFilter, torn, notified, liveCount, arrived,
                   download>>

\* fetchSensorData's onValue callback: resolve(sorted readings); a later call
\* finds the promise settled and changes nothing
FetchSnapshot ==
    /\ "fetch" \in listeners
    /\ fetchState = "pending"
    /\ fetched' = FetchReadings(db, Lookback)
    /\ fetchState' = "resolved"
    /\ UNCHANGED <<db, listeners, data, latestReading, loading, alerts, timers,
                   dateFilter, torn, notified, liveCount, arrived,
                   download>>

\* fetchSensorData's onValue error callback: reject(error)
FetchError ==
    /\ "fetch" \in listeners
    /\ fetchState = "pending"
    /\ fetchState' = "rejected"
    /\ UNCHANGED <<db, listeners, fetched, data, latestReading, loading, alerts,
                   timers, dateFilter, torn, notified, liveCount, arrived,
                   download>>

\* loadData after the await: setData, setLatestReading, setLoading(false)
LoadDataResume ==
    /\ fetchState = "resolved"
    /\ data' = fetched
    /\ latestReading' = IF Len(fetched) > 0 THEN <<Last(fetched)>> ELSE latestReading
    /\ loading' = FALSE
    /\ fetchState' = "applied"
    /\ arrived' = fetched
    /\ UNCHANGED <<db, listeners, fetched, alerts, timers, dateFilter, torn,
                   notified, liveCount,
                   download>>

\* a catch that also resets the window and the latest reading
LoadDataCatchReset ==
    /\ fetchState = "rejected"
    /\ loading' = FALSE
    /\ fetchState' = "failed"
    /\ data' = <<>>
    /\ latestReading' = <<>>
    /\ arrived' = <<>>
    /\ UNCHANGED <<db, listeners, fetched, alerts, timers,
                   dateFilter, torn, notified, liveCount,
                   download>>

\* loadData's catch: setLoading(false)
LoadDataCatch ==
    /\ fetchState = "rejected"
    /\ loading' = FALSE
    /\ fetchState' = "failed"
    /\ UNCHANGED <<db, listeners, fetched, data, latestReading, alerts, timers,
                   dateFilter, torn, notified, liveCount, arrived,
                   download>>

\* the Dashboard's callback for one reading, on the state st it reads and writes
OnReading(st, newReading) ==
    [data          |-> AppendReading(st.data, newReading),
     latestReading |-> <<newReading>>,
     alerts        |-> AlertsAfter(st.alerts, Evaluate(newReading)),
     timers        |-> TimersAfter(st.timers, Evaluate(newReading)),
     liveCount     |-> st.liveCount + 1,
     arrived       |-> Append(st.arrived, newReading)]

RECURSIVE Deliver(_, _)
\* the callback called for each of the readings, in order
Deliver(st, readings) ==
    IF readings = <<>> THEN st
    ELSE Deliver(OnReading(st, Head(readings)), Tail(readings))

\* subscribeToRealtimeData's onValue callback, called with the current snapshot
LiveSnapshot ==
    /\ "live" \in listeners
    /\ notified' = notified + 1
    /\ LET st == Deliver([data |-> data, latestReading |-> latestReading,
                          alerts |-> alerts, timers |-> timers,
                          liveCount |-> liveCount, arrived |-> arrived],
                         CallbackReadings(db))
       IN  /\ data' = st.data
           /\ latestReading' = st.latestReading
           /\ alerts' = st.alerts
           /\ timers' = st.timers
           /\ liveCount' = st.liveCount
           /\ arrived' = st.arrived
    /\ UNCHANGED <<db, listeners, fetchState, fetched, loading, dateFilter, torn,
                   download>>

\* a pending 5000 ms timer fires
TimerFire ==
    /\ ~MicrotaskPending
    /\ timers > 0
    /\ alerts' = AlertsOnExpiry(alerts)
    /\ timers' = timers - 1
    /\ UNCHANGED <<db, listeners, fetchState, fetched, data, latestReading, loading,
                   dateFilter, torn, notified, liveCount, arrived,
                   download>>

\* the effect cleanup: unsubscribe() is off(sensorsRef), which detaches every
\* listener of the ref
Teardown ==
    /\ ~MicrotaskPending
    /\ ~torn
    /\ listeners' = {}
    /\ torn' = TRUE
    /\ UNCHANGED <<db, fetchState, fetched, data, latestReading, loading, alerts,
                   timers, dateFilter, notified, liveCount, arrived,
                   download>>

\* onChange of the start input (rendered once loading is false)
SetStart(s) ==
    /\ ~MicrotaskPending /\ ~torn /\ ~loading
    /\ dateFilter' = [dateFilter EXCEPT !.start = s]
    /\ UNCHANGED <<db, listeners, fetchState, fetched, data, latestReading, loading,
                   alerts, timers, torn, notified, liveCount, arrived,
                   download>>

\* onChange of the end input
SetEnd(s) ==
    /\ ~MicrotaskPending /\ ~torn /\ ~loading
    /\ dateFilter' = [dateFilter EXCEPT !.end = s]
    /\ UNCHANGED <<db, listeners, fetchState, fetched, data, latestReading, loading,
                   alerts, timers, torn, notified, liveCount, arrived,
                   download>>

\* the live channel fails (the listen is revoked or the connection errors): the
\* live listener's registration is cancelled; its onValue call passes no cancel
\* callback, so no code of the session runs
LiveError ==
    /\ ~MicrotaskPending
    /\ "live" \in listeners
    /\ listeners' = listeners \ {"live"}
    /\ UNCHANGED <<db, fetchState, fetched, data, latestReading, loading, alerts,
                   timers, dateFilter, torn, notified, liveCount, arrived,
                   download>>

\* handleExport, the Export CSV button: exportToCSV(data, 'soil-sensor-data')
HandleExport ==
    /\ ~MicrotaskPending /\ ~torn /\ ~loading
    /\ download' = ExportToCSV(data)
    /\ UNCHANGED <<db, listeners, fetchState, fetched, data, latestReading, loading,
                   alerts, timers, dateFilter, torn, notified, liveCount, arrived>>

\* ingestion, alerts and teardown
NextCore ==
    \/ (Len(db) < MaxDb /\ \E child \in Children : SourceWrite(child))
    \/ FetchSnapshot
    \/ FetchError
    \/ LoadDataResume
    \/ LoadDataCatch
    \/ (notified < MaxLive /\ LiveSnapshot)
    \/ TimerFire
    \/ Teardown

Next ==
    \/ NextCore
    \/ (\E s \in DateInputs : SetStart(s))
    \/ (\E s \in DateInputs : SetEnd(s))

Spec == Init /\ [][Next]_vars

\* the session with a live channel that can fail
NextErr == NextCore \/ LiveError

SpecErr == Init /\ [][NextErr]_vars

\* the dashboard with its export button
NextExport == Next \/ HandleExport

SpecExport == Init /\ [][NextExport]_vars

\* the event loop runs every due timer and every queued continuation
SpecFair ==
    /\ Init /\ [][NextCore]_vars
    /\ WF_vars(TimerFire) /\ WF_vars(LoadDataResume) /\ WF_vars(LoadDataCatch)

\* the long run: the historical load, then the source's writes, each delivered
\* once to the live listener before the next
LongWrite ==
    /\ fetchState = "applied"
    /\ liveCount = Len(db) - Len(fetched)
    /\ liveCount < MaxLongLive
    /\ SourceWrite(LongChild(Len(db) + 1))

LongLive ==
    /\ fetchState = "applied"
    /\ liveCount < Len(db) - Len(fetched)
    /\ LiveSnapshot

NextLong == FetchSnapshot \/ LoadDataResume \/ LongWrite \/ LongLive

SpecLong == InitLong /\ [][NextLong]_vars

\* the threshold runs: the source holds one child, the live listener delivers
\* it once, and the alert timer may fire
InitEval == (\E child \in EvalChildren : db = <<child>>) /\ Mounted

NextEval == (notified = 0 /\ LiveSnapshot) \/ TimerFire

SpecEval == InitEval /\ [][NextEval]_vars

---------------------------------------------------------------------------
(* Properties. *)

\* a timestamp sequence in ascending order, ties excluded / allowed
StrictlyAscending(s) ==
    \A i \in 1..Len(s) - 1 :
        s[i].timestamp # NaN /\ s[i + 1].timestamp # NaN
        /\ s[i].timestamp < s[i + 1].timestamp

NonDecreasing(s) ==
    \A i \in 1..Len(s) - 1 :
        s[i].timestamp # NaN /\ s[i + 1].timestamp # NaN
        /\ s[i].timestamp <= s[i + 1].timestamp

NoFilter == [start |-> <<>>, end |-> <<>>]

\* the step in which loadData applies the historical readings
LoadApplied == fetchState = "resolved" /\ fetchState' = "applied"

\* C1: when a timer fires while a later batch's timer is also pending (the
\* firing timer belongs to a superseded batch), the active alerts stay as they are.
C1_StaleTimerIsNoOp ==
    [][(timers >= 2 /\ timers' = timers - 1) => alerts' = alerts]_vars

\* C2: once a live reading has been appended, the window holds at most Capacity
\* readings and is exactly the last Capacity of the readings that arrived
\* (the starting window followed by the live appends), in arrival order.
C2_WindowBound ==
    liveCount > 0 => (Len(data) <= Capacity /\ data = LastN(arrived, Capacity))

\* 3 historical readings and 150 live appends: the window is the last 100 appended
C2_Witness ==
    /\ Len(fetched) = 3
    /\ liveCount = MaxLongLive
    /\ Len(data) = Capacity
    /\ data[1].id = DecimalString(3 + MaxLongLive - Capacity + 1)
    /\ Last(data).id = DecimalString(3 + MaxLongLive)

\* C3: in every reachable state the window holds at most Capacity readings,
\* also right after the historical load.
C3_LoadWithinCapacity == Len(data) <= Capacity

\* C4 as claimed: right after the historical load, filter(none) is in strictly
\* ascending timestamp order.
C4_StrictlyAscendingOnLoad ==
    [][LoadApplied => StrictlyAscending(FilterDataByDate(data', NoFilter))]_vars

\* C4 as amended: right after the historical load, filter(none) holds exactly
\* the loaded readings in non-decreasing timestamp order (ties allowed).
C4_NonDecreasingOnLoad ==
    [][LoadApplied =>
          /\ NonDecreasing(FilterDataByDate(data', NoFilter))
          /\ Len(data') = Len(RecentReadings(db, Lookback))
          /\ \A i \in 1..Len(data') :
                \E j \in 1..Len(db) : data'[i] = SnapshotReadings(db)[j]]_vars

\* a load whose input was out of order and came out sorted
C4_Witness ==
    /\ fetchState = "applied" /\ liveCount = 0 /\ Len(db) = Len(data)
    /\ Len(data) >= 2
    /\ ~NonDecreasing(SnapshotReadings(db))
    /\ NonDecreasing(data)

\* C5: no live reading is appended before the historical load has completed.
C5_LoadBeforeLive == liveCount > 0 => fetchState \in {"applied", "failed"}

\* C6: once the session is torn down no alert-expiry timer is pending, and the
\* window, the latest reading and the active alerts no longer change.
C6_NoMutationAfterTeardown ==
    [][torn' => /\ timers' = 0
                /\ (torn => UNCHANGED <<data, latestReading, alerts>>)]_vars

\* C7: a live reading that triggers no rule leaves the active alerts and the
\* pending timers unchanged.
C7_EmptyBatchNoOp ==
    [][(liveCount' = liveCount + 1 /\ Evaluate(latestReading'[1]) = <<>>)
          => (alerts' = alerts /\ timers' = timers)]_vars

\* alerts active, then a live reading that fires no rule: the alerts are still there
C7_Witness ==
    /\ fetchState = "pending" /\ liveCount = 2
    /\ Evaluate(arrived[1]) # <<>>
    /\ Evaluate(arrived[2]) = <<>>
    /\ alerts = Evaluate(arrived[1])
    /\ timers = 1

\* C8: whenever alerts are active, they are eventually cleared with no timer
\* left pending (timers fire; no batch follows the last one for ever).
C8_AlertsExpire == (alerts # <<>>) ~> (alerts = <<>> /\ timers = 0)

\* a batch was activated by the last live reading and its timer has cleared it
C8_Witness ==
    /\ fetchState = "pending" /\ liveCount > 0
    /\ Evaluate(Last(arrived)) # <<>>
    /\ alerts = <<>> /\ timers = 0

\* C9: one live notification processes no reading when the snapshot is empty,
\* and otherwise exactly one, the snapshot's last entry.
C9_OneReadingPerSnapshot ==
    [][notified' = notified + 1 =>
          IF db = <<>>
          THEN UNCHANGED <<data, latestReading, alerts, timers, liveCount, arrived>>
          ELSE /\ liveCount' = liveCount + 1
               /\ arrived' = Append(arrived, Normalize(Last(db).key, Last(db).value))
               /\ latestReading' = <<Normalize(Last(db).key, Last(db).value)>>
               /\ Len(data') <= Len(data) + 1
               /\ Last(data') = Normalize(Last(db).key, Last(db).value)]_vars

\* a snapshot of two entries was delivered and one reading was processed
C9_Witness ==
    /\ Len(db) = 2 /\ notified = 1 /\ liveCount = 1
    /\ fetchState = "pending"
    /\ data = <<Normalize(db[2].key, db[2].value)>>

\* s <= t <= e for JavaScript numbers
InRange(t, s, e) == t # NaN /\ s # NaN /\ e # NaN /\ s <= t /\ t <= e

\* the indices of the window whose timestamp is within the date filter's bounds
Kept ==
    {i \in 1..Len(data) :
        InRange(data[i].timestamp, DateTime(dateFilter.start), DateTime(dateFilter.end))}

\* C10 (state part): with both bounds given, the filtered view is the window's
\* readings with start <= timestamp <= end, in the window's order.
C10_FilterView ==
    (dateFilter.start # <<>> /\ dateFilter.end # <<>>) =>
        /\ Len(filteredData) = Cardinality(Kept)
        /\ \A k \in 1..Len(filteredData) :
              filteredData[k] =
                  data[CHOOSE i \in Kept : Cardinality({j \in Kept : j <= i}) = k]

\* C10: the filtered view is as above in every state, and setting the filter
\* does not modify the window.
C10_FilterCorrect ==
    []C10_FilterView /\ [][dateFilter' # dateFilter => data' = data]_vars

\* both bounds equal to a timestamp of the window: that reading is kept, another is not
C10_Witness ==
    /\ dateFilter.start # <<>> /\ dateFilter.end = dateFilter.start
    /\ Len(data) = 2
    /\ Len(filteredData) = 1
    /\ filteredData[1].timestamp = DateTime(dateFilter.start)

\* a date filter with both bounds given that is no range: a bound that is no
\* date, or start after end
InvalidDateRange(f) ==
    /\ f.start # <<>> /\ f.end # <<>>
    /\ \/ DateTime(f.start) = NaN
       \/ DateTime(f.end) = NaN
       \/ DateTime(f.start) > DateTime(f.end)

\* C11: with an invalid date range (start after end, or a bound that is no
\* date) the filtered view is the full window.
C11_InvalidRangeIsNoFilter == InvalidDateRange(dateFilter) => filteredData = data

\* C12: a rejected historical query does not end the session and writes nothing
\* into the window, the latest reading or the alerts (the window is empty while
\* no live reading has arrived); the live listener stays attached, and every
\* snapshot it delivers afterwards is appended and evaluated.
C12_FailedLoad ==
    /\ [][(fetchState = "rejected" /\ fetchState' = "failed") =>
             UNCHANGED <<data, latestReading, alerts, timers, listeners, torn>>]_vars
    /\ []((fetchState = "failed" /\ liveCount = 0) => data = <<>>)
    /\ []((fetchState = "failed" /\ ~torn) => "live" \in listeners)
    /\ [][(fetchState = "failed" /\ notified' = notified + 1 /\ db # <<>>) =>
             LET r == Normalize(Last(db).key, Last(db).value)
             IN  /\ data' = LastN(Append(data, r), Capacity)
                 /\ latestReading' = <<r>>
                 /\ alerts' = (IF Evaluate(r) # <<>> THEN Evaluate(r) ELSE alerts)]_vars

\* the load has failed, the session goes on, and live readings are in the
\* window with their alerts raised
C12_Witness ==
    /\ fetchState = "failed" /\ ~torn /\ ~loading
    /\ liveCount = 2 /\ Len(data) = 2 /\ data = arrived
    /\ alerts = Evaluate(Last(data)) /\ alerts # <<>>

\* C13: the latest reading is none exactly when the window is empty, and is
\* otherwise the last reading of the window.
C13_LatestIsLastOfWindow ==
    IF data = <<>> THEN latestReading = <<>> ELSE latestReading = <<Last(data)>>

\* the rule table: message and condition, in tenths
RuleFires(message, r) ==
    CASE message = "Low soil moisture" -> r.moisture < 200
      [] message = "pH out of range"   -> r.ph < 60 \/ r.ph > 85
      [] message = "High temperature"  -> r.temperature > 600

RuleOrder == <<"Low soil moisture", "pH out of range", "High temperature">>

\* C14: for the reading the live callback has processed, evaluate gives exactly
\* the messages of the rules that fire, in rule-table order, each rule on its
\* own; the two examples and the boundary values come out as stated; a
\* non-empty result becomes the active alerts.
C14_RuleTable ==
    liveCount = 1 =>
        LET r  == latestReading[1]
            ev == Evaluate(r)
        IN  /\ ev = SelectSeq(RuleOrder, LAMBDA m : RuleFires(m, r))
            /\ (r.moisture = 150 /\ r.ph = 70 /\ r.temperature = 250)
                  => ev = <<"Low soil moisture">>
            /\ (r.moisture = 500 /\ r.ph = 90 /\ r.temperature = 700)
                  => ev = <<"pH out of range", "High temperature">>
            /\ (r.moisture = 200 /\ r.ph \in {60, 85} /\ r.temperature = 600)
                  => ev = <<>>
            /\ timers = 1 => alerts = ev
            /\ ev = <<>> => (alerts = <<>> /\ timers = 0)

\* moisture 50, pH 9, temperature 70: two alerts, in table order
C14_Witness ==
    /\ liveCount = 1 /\ timers = 1
    /\ latestReading[1].moisture = 500
    /\ latestReading[1].ph = 90
    /\ latestReading[1].temperature = 700
    /\ alerts = <<"pH out of range", "High temperature">>

\* C15: the step in which the live channel fails changes what the session
\* owner holds (window, latest reading, loading flag, alerts or the session's
\* end): the failure is surfaced, not dropped.
C15_SubscriptionFailureSurfaced ==
    [][("live" \in listeners /\ "live" \notin listeners' /\ ~torn') =>
          <<data, latestReading, loading, alerts, torn>>'
              # <<data, latestReading, loading, alerts, torn>>]_vars

\* C16: an export made while a date range is set (both bounds, start not after
\* end) writes the header line and then one line per reading of the filtered view, and leaves
\* the window as it is.
C16_ExportIsFilteredView ==
    [][(download' # download /\ dateFilter.start # <<>> /\ dateFilter.end # <<>>
           /\ ~InvalidDateRange(dateFilter)) =>
          /\ Len(download') = 1 + Len(filteredData)
          /\ \A i \in 1..Len(filteredData) : download'[i + 1] = CsvRow(filteredData[i])
          /\ data' = data]_vars

\* the measurement the normalizer is said to give for a raw field
ClaimedMeasure(field) ==
    IF field.kind = "number" THEN field.num
    ELSE IF field.kind = "string" /\ ParseFloatStr(field.str) # NaN
         THEN ParseFloatStr(field.str)
         ELSE 0

Measures(r) ==
    <<r.moisture, r.temperature, r.ec, r.ph, r.nitrogen, r.phosphorus, r.potassium>>

\* C17: every reading of the window is the normalization of its record: its
\* timestamp is the record's numeric timestamp field, else the key parsed as an
\* integer; each measurement is the parsed number or 0; every field is finite.
C17_NormalizerTotal ==
    \A i \in 1..Len(data) :
        \E c \in Children :
            LET r == data[i]
                v == c.value
            IN  /\ c.key = r.id
                /\ r.timestamp = (IF v.timestamp.kind = "number" THEN v.timestamp.num
                                  ELSE ParseInt(c.key))
                /\ Measures(r) = <<ClaimedMeasure(v.moisture), ClaimedMeasure(v.temperature),
                                   ClaimedMeasure(v.ec), ClaimedMeasure(v.ph),
                                   ClaimedMeasure(v.nitrogen), ClaimedMeasure(v.phosphorus),
                                   ClaimedMeasure(v.potassium)>>
                /\ r.timestamp # NaN
                /\ \A k \in 1..7 : Measures(r)[k] # NaN

LiveAppended == liveCount' = liveCount + 1 /\ data # <<>> /\ latestReading' # <<>>

InWindow(w, r) == \E i \in 1..Len(w) : w[i] = r

\* C19: a reading of the window (until the historical load completes, every
\* one of them came from the live listener) leaves the window only when a later
\* append evicts it from a full window; the load's completion discards none.
C19_NoLostLiveReadings ==
    [][\A i \in 1..Len(data) :
          ~InWindow(data', data[i]) =>
              (liveCount' = liveCount + 1 /\ Len(data) = Capacity)]_vars

\* the ids of the readings of a window
Ids(w) == {w[i].id : i \in 1..Len(w)}

\* C20: the window holds at most one reading per source id.
C20_NoDuplicateReadings == Cardinality(Ids(data)) = Len(data)

=============================================================================
